---- MODULE Spec2Model ----
(***************************************************************************)
(* A model of src/app.py: the Product variants (Electronics, Grocery,      *)
(* Clothing), the Inventory store that maps product_id to a product, and   *)
(* the JSON persistence of the store.                                      *)
(*                                                                         *)
(* The store (a Python dict, which keeps insertion order) is a sequence of *)
(* product records whose product_id fields are the keys.  Text that the   *)
(* program parses or prints (dates, JSON numbers) is a sequence of one-    *)
(* character strings, so that parsing and printing are computed.           *)
(***************************************************************************)
EXTENDS Integers, Sequences, FiniteSets, TLC

VARIABLES
    products,     \* Inventory._products, in insertion order
    file,         \* the content of the file that save/load name
    today,        \* the value date.today() returns
    padsYear,     \* whether the platform's strftime pads %Y to four digits
    lastOp,       \* the operation that ran last, with its arguments
    result,       \* how it ended: ok, or the exception it raised
    returned      \* what it returned (remove_expired_products' list)

vars == <<products, file, today, padsYear, lastOp, result, returned>>

----------------------------------------------------------------------------
(* Bounds of the model *)

\* restock is not applied once a product holds this many units
MaxStock == 2
\* the longest products array of a hand-written document
MaxRecords == 2

----------------------------------------------------------------------------
(* Results of an operation *)

Res(kind, available, requested) ==
    [kind |-> kind, available |-> available, requested |-> requested]

Ok == Res("ok", 0, 0)

Raised(kind) == Res(kind, 0, 0)

Op(name, id, amount) == [op |-> name, id |-> id, amount |-> amount]

----------------------------------------------------------------------------
(* Text: decimal numbers and dates *)

Digit == {"0", "1", "2", "3", "4", "5", "6", "7", "8", "9"}

DigitChars == <<"0", "1", "2", "3", "4", "5", "6", "7", "8", "9">>

DigitVal(c) == CHOOSE v \in 0..9 : DigitChars[v + 1] = c

AllDigits(s) == \A i \in 1..Len(s) : s[i] \in Digit

RECURSIVE NatVal(_)
NatVal(s) ==
    IF s = <<>> THEN 0
    ELSE 10 * NatVal(SubSeq(s, 1, Len(s) - 1)) + DigitVal(s[Len(s)])

RECURSIVE NatText(_)
NatText(n) ==
    IF n < 10 THEN <<DigitChars[n + 1]>>
    ELSE Append(NatText(n \div 10), DigitChars[(n % 10) + 1])

RECURSIVE ZeroPad(_, _)
ZeroPad(s, width) == IF Len(s) >= width THEN s ELSE ZeroPad(<<"0">> \o s, width)

\* json.dump of an int, and json.load of that text
JsonNumber(n) == IF n < 0 THEN <<"-">> \o NatText(-n) ELSE NatText(n)

JsonInt(s) == IF s[1] = "-" THEN -NatVal(Tail(s)) ELSE NatVal(s)

Date(y, m, d) == [year |-> y, month |-> m, day |-> d]

DateLT(a, b) ==
    \/ a.year < b.year
    \/ a.year = b.year /\ a.month < b.month
    \/ a.year = b.year /\ a.month = b.month /\ a.day < b.day

IsLeap(y) == (y % 4 = 0) /\ ((y % 100 # 0) \/ (y % 400 = 0))

DaysInMonth(y, m) ==
    IF m = 2 THEN (IF IsLeap(y) THEN 29 ELSE 28)
    ELSE IF m \in {4, 6, 9, 11} THEN 30 ELSE 31

\* %m and %d accept one digit 1-9 or two digits; the value is range-checked
FieldOk(s, max) ==
    /\ Len(s) \in {1, 2}
    /\ AllDigits(s)
    /\ NatVal(s) >= 1
    /\ NatVal(s) <= max

\* the position of the first "-" of s at or after position i, 0 if none
RECURSIVE FindDash(_, _)
FindDash(s, i) ==
    IF i > Len(s) THEN 0
    ELSE IF s[i] = "-" THEN i
    ELSE FindDash(s, i + 1)

\* datetime.strptime(s, "%Y-%m-%d").date(): ok is FALSE when it raises ValueError
strptime(s) ==
    LET bad == [ok |-> FALSE, date |-> Date(0, 0, 0)]
        dash == FindDash(s, 6)
    IN  IF Len(s) < 8 \/ ~AllDigits(SubSeq(s, 1, 4)) \/ s[5] # "-" \/ dash = 0
        THEN bad
        ELSE LET y  == NatVal(SubSeq(s, 1, 4))
                 ms == SubSeq(s, 6, dash - 1)
                 ds == SubSeq(s, dash + 1, Len(s))
             IN  IF ~FieldOk(ms, 12) \/ ~FieldOk(ds, 31) \/ y < 1
                 THEN bad
                 ELSE IF NatVal(ds) > DaysInMonth(y, NatVal(ms))
                      THEN bad
                      ELSE [ok |-> TRUE, date |-> Date(y, NatVal(ms), NatVal(ds))]

\* date.strftime("%Y-%m-%d"): %m and %d are two digits; %Y is what the C
\* library prints, four digits zero-padded on some platforms and the bare
\* number on others
strftime(d, pads) ==
    (IF pads THEN ZeroPad(NatText(d.year), 4) ELSE NatText(d.year))
        \o <<"-">> \o ZeroPad(NatText(d.month), 2)
        \o <<"-">> \o ZeroPad(NatText(d.day), 2)

----------------------------------------------------------------------------
(* Product and its variants *)

Electronics(product_id, name, price, quantity_in_stock, warranty_years, brand) ==
    [type |-> "electronics", product_id |-> product_id, name |-> name,
     price |-> price, quantity_in_stock |-> quantity_in_stock,
     warranty_years |-> warranty_years, brand |-> brand]

\* expiry_date is the parsed date; the caller checks strptime(..).ok first
Grocery(product_id, name, price, quantity_in_stock, expiry_date) ==
    [type |-> "grocery", product_id |-> product_id, name |-> name,
     price |-> price, quantity_in_stock |-> quantity_in_stock,
     expiry_date |-> strptime(expiry_date).date]

Clothing(product_id, name, price, quantity_in_stock, size, material) ==
    [type |-> "clothing", product_id |-> product_id, name |-> name,
     price |-> price, quantity_in_stock |-> quantity_in_stock,
     size |-> size, material |-> material]

set_price(p, new_price) ==
    IF new_price <= 0
    THEN [product |-> p, result |-> Raised("ValueError")]
    ELSE [product |-> [p EXCEPT !.price = new_price], result |-> Ok]

restock(p, amount) ==
    IF amount <= 0
    THEN [product |-> p, result |-> Raised("ValueError")]
    ELSE [product |-> [p EXCEPT !.quantity_in_stock = @ + amount], result |-> Ok]

sell_unchecked(p, quantity) ==
    IF quantity <= 0
    THEN [product |-> p, result |-> Raised("ValueError")]
    ELSE [product |-> [p EXCEPT !.quantity_in_stock = @ - quantity], result |-> Ok]

sell(p, quantity) ==
    IF quantity <= 0
    THEN [product |-> p, result |-> Raised("ValueError")]
    ELSE IF quantity > p.quantity_in_stock
         THEN [product |-> p,
               result |-> Res("InsufficientStockError", p.quantity_in_stock, quantity)]
         ELSE [product |-> [p EXCEPT !.quantity_in_stock = @ - quantity],
               result |-> Ok]

is_expired_inclusive(p, now) == ~DateLT(now, p.expiry_date)

is_expired(p, now) == DateLT(p.expiry_date, now)

----------------------------------------------------------------------------
(* Inventory: the store *)

Keys(store) == {store[i].product_id : i \in 1..Len(store)}

IndexOf(store, id) == CHOOSE i \in 1..Len(store) : store[i].product_id = id

\* del d[id] / d.pop(id): the other entries keep their order
Without(store, id) == SelectSeq(store, LAMBDA p : p.product_id # id)

add_product_overwriting(store, p) ==
    IF p.product_id \in Keys(store)
    THEN [store |-> [store EXCEPT ![IndexOf(store, p.product_id)] = p], result |-> Ok]
    ELSE [store |-> Append(store, p), result |-> Ok]

add_product(store, p) ==
    IF p.product_id \in Keys(store)
    THEN [store |-> store, result |-> Raised("DuplicateProductError")]
    ELSE [store |-> Append(store, p), result |-> Ok]

remove_product_lenient(store, id) == [store |-> Without(store, id), result |-> Ok]

remove_product(store, id) ==
    IF id \notin Keys(store)
    THEN [store |-> store, result |-> Raised("KeyError")]
    ELSE [store |-> Without(store, id), result |-> Ok]

sell_product(store, id, quantity) ==
    IF id \notin Keys(store)
    THEN [store |-> store, result |-> Raised("KeyError")]
    ELSE LET i == IndexOf(store, id)
             r == sell(store[i], quantity)
         IN  [store |-> [store EXCEPT ![i] = r.product], result |-> r.result]

restock_product(store, id, quantity) ==
    IF id \notin Keys(store)
    THEN [store |-> store, result |-> Raised("KeyError")]
    ELSE LET i == IndexOf(store, id)
             r == restock(store[i], quantity)
         IN  [store |-> [store EXCEPT ![i] = r.product], result |-> r.result]

\* the loop of remove_expired_products over the snapshot list(items()):
\* entry i onwards is still to visit, store is the dict, expired the result
RECURSIVE ExpiredScan(_, _, _, _, _)
ExpiredScan(snapshot, i, store, expired, now) ==
    IF i > Len(snapshot) THEN [store |-> store, returned |-> expired]
    ELSE IF snapshot[i].type = "grocery" /\ is_expired(snapshot[i], now)
         THEN ExpiredScan(snapshot, i + 1, Without(store, snapshot[i].product_id),
                          Append(expired, snapshot[i]), now)
         ELSE ExpiredScan(snapshot, i + 1, store, expired, now)

remove_expired_products(store, now) == ExpiredScan(store, 1, store, <<>>, now)

----------------------------------------------------------------------------
(* Serialization: to_dict / from_dict, json.dump / json.load *)

NumberFields == {"price", "quantity_in_stock", "warranty_years"}

CommonFields == {"product_id", "name", "price", "quantity_in_stock"}

\* the keys each from_dict reads besides "type"
RequiredFields(type) ==
    CommonFields \cup
        (CASE type = "electronics" -> {"warranty_years", "brand"}
           [] type = "grocery"     -> {"expiry_date"}
           [] type = "clothing"    -> {"size", "material"})

product_classes == {"electronics", "grocery", "clothing"}

to_dict(p, pads) ==
    CASE p.type = "electronics" ->
            [type |-> "electronics", product_id |-> p.product_id, name |-> p.name,
             price |-> p.price, quantity_in_stock |-> p.quantity_in_stock,
             warranty_years |-> p.warranty_years, brand |-> p.brand]
      [] p.type = "grocery" ->
            [type |-> "grocery", product_id |-> p.product_id, name |-> p.name,
             price |-> p.price, quantity_in_stock |-> p.quantity_in_stock,
             expiry_date |-> strftime(p.expiry_date, pads)]
      [] p.type = "clothing" ->
            [type |-> "clothing", product_id |-> p.product_id, name |-> p.name,
             price |-> p.price, quantity_in_stock |-> p.quantity_in_stock,
             size |-> p.size, material |-> p.material]

\* the from_dict of the class that "type" selects; a key it reads and the
\* record lacks raises KeyError before the constructor runs
from_dict(d) ==
    LET none == [type |-> "none"]
    IN  IF ~(RequiredFields(d.type) \subseteq DOMAIN d)
        THEN [product |-> none, result |-> Raised("KeyError")]
        ELSE CASE d.type = "electronics" ->
                    [product |-> Electronics(d.product_id, d.name, d.price,
                                             d.quantity_in_stock, d.warranty_years,
                                             d.brand),
                     result |-> Ok]
               [] d.type = "grocery" ->
                    IF strptime(d.expiry_date).ok
                    THEN [product |-> Grocery(d.product_id, d.name, d.price,
                                              d.quantity_in_stock, d.expiry_date),
                          result |-> Ok]
                    ELSE [product |-> none, result |-> Raised("ValueError")]
               [] d.type = "clothing" ->
                    [product |-> Clothing(d.product_id, d.name, d.price,
                                          d.quantity_in_stock, d.size, d.material),
                     result |-> Ok]

\* json.dump writes each number as decimal text; json.load reads it back
json_dump(d) ==
    [f \in DOMAIN d |-> IF f \in NumberFields THEN JsonNumber(d[f]) ELSE d[f]]

json_load(t) ==
    [f \in DOMAIN t |-> IF f \in NumberFields THEN JsonInt(t[f]) ELSE t[f]]

NoFile == [kind |-> "missing"]

NotJson == [kind |-> "garbage"]

Document(top) == [kind |-> "json", text |-> top]

save_to_file(store, pads) ==
    Document([products |-> [i \in 1..Len(store) |-> json_dump(to_dict(store[i], pads))]])

\* a variant of the scan that skips a record it cannot use
RECURSIVE LoadScanSkipping(_, _, _)
LoadScanSkipping(records, i, store) ==
    IF i > Len(records) THEN [store |-> store, result |-> Ok]
    ELSE LET d == json_load(records[i])
         IN  IF "type" \notin DOMAIN d \/ d.type \notin product_classes
             THEN LoadScanSkipping(records, i + 1, store)
             ELSE LET r == from_dict(d)
                  IN  IF r.result.kind # "ok"
                      THEN LoadScanSkipping(records, i + 1, store)
                      ELSE LoadScanSkipping(records, i + 1,
                                            add_product(store, r.product).store)

\* the for loop of load_from_file from record i on, store being the dict so far
RECURSIVE LoadScan(_, _, _)
LoadScan(records, i, store) ==
    IF i > Len(records) THEN [store |-> store, result |-> Ok]
    ELSE LET d == json_load(records[i])
         IN  IF "type" \notin DOMAIN d
             THEN [store |-> store, result |-> Raised("InvalidProductDataError")]
             ELSE IF d.type \notin product_classes
             THEN [store |-> store, result |-> Raised("InvalidProductDataError")]
             ELSE LET r == from_dict(d)
                  IN  IF r.result.kind = "KeyError"
                      THEN [store |-> store,
                            result |-> Raised("InvalidProductDataError")]
                      ELSE IF r.result.kind # "ok"
                      THEN [store |-> store, result |-> r.result]
                      ELSE LET a == add_product(store, r.product)
                           IN  IF a.result.kind # "ok"
                               THEN [store |-> a.store, result |-> a.result]
                               ELSE LoadScan(records, i + 1, a.store)

\* a variant that empties the store before it opens the file
load_from_file_clearing_first(store, f) ==
    IF f.kind = "missing"
    THEN [store |-> <<>>, result |-> Raised("FileNotFoundError")]
    ELSE IF f.kind = "garbage"
    THEN [store |-> <<>>, result |-> Raised("JSONDecodeError")]
    ELSE IF "products" \notin DOMAIN f.text
    THEN [store |-> <<>>, result |-> Raised("KeyError")]
    ELSE LoadScan(f.text.products, 1, <<>>)

load_from_file(store, f) ==
    IF f.kind = "missing"
    THEN [store |-> store, result |-> Raised("FileNotFoundError")]
    ELSE IF f.kind = "garbage"
    THEN [store |-> store, result |-> Raised("JSONDecodeError")]
    ELSE IF "products" \notin DOMAIN f.text
    THEN [store |-> <<>>, result |-> Raised("KeyError")]
    ELSE LoadScan(f.text.products, 1, <<>>)

----------------------------------------------------------------------------
(* Inputs *)

ProductIds == {"P1", "P2", "P3"}

FileIds == {"P1", "P2"}

Text_2024_03_01 == <<"2", "0", "2", "4", "-", "0", "3", "-", "0", "1">>

\* %m and %d without the leading zero, which strptime accepts
Text_2025_1_5 == <<"2", "0", "2", "5", "-", "1", "-", "5">>

Text_0999_12_31 == <<"0", "9", "9", "9", "-", "1", "2", "-", "3", "1">>

\* 2023 is no leap year
Text_2023_02_29 == <<"2", "0", "2", "3", "-", "0", "2", "-", "2", "9">>

Calendar == {Date(2024, 3, 1), Date(2024, 3, 2)}

\* constructor arguments, as the menu or a caller passes them
ElectronicsArgs(id, pr, q) ==
    [type |-> "electronics", product_id |-> id, name |-> "laptop", price |-> pr,
     quantity_in_stock |-> q, warranty_years |-> 2, brand |-> "Acme"]

GroceryArgs(id, pr, q, d) ==
    [type |-> "grocery", product_id |-> id, name |-> "milk", price |-> pr,
     quantity_in_stock |-> q, expiry_date |-> d]

ClothingArgs(id, pr, q) ==
    [type |-> "clothing", product_id |-> id, name |-> "shirt", price |-> pr,
     quantity_in_stock |-> q, size |-> "M", material |-> "cotton"]

Arguments(ids, prices, quantities, dates) ==
    {ElectronicsArgs(id, pr, q) : id \in ids, pr \in prices, q \in quantities}
    \cup {GroceryArgs(id, pr, q, d) :
              id \in ids, pr \in prices, q \in quantities, d \in dates}
    \cup {ClothingArgs(id, pr, q) : id \in ids, pr \in prices, q \in quantities}

StoreArguments ==
    Arguments(FileIds, {0, 1}, {-1, 1}, {Text_2024_03_01})

ExpiryArguments ==
    Arguments(ProductIds, {1}, {1}, {Text_2024_03_01, Text_2025_1_5, Text_2023_02_29})

FileArguments ==
    Arguments(FileIds, {1}, {-1}, {Text_0999_12_31})

Amounts == {0, 1, 2}

NewPrices == {0, 1}

\* records of a hand-written document, numbers as JSON text
GoodRecords ==
    { json_dump(ElectronicsArgs("P1", 1, -1)),
      json_dump(ClothingArgs("P1", 1, -1)),
      json_dump(GroceryArgs("P2", 1, -1, Text_2025_1_5)) }

DropField(d, f) == [g \in DOMAIN d \ {f} |-> d[g]]

BadRecords ==
    LET e == json_dump(ElectronicsArgs("P2", 1, -1))
    IN  { [e EXCEPT !.type = "toy"],
          DropField(e, "type"),
          DropField(e, "brand"),
          json_dump(GroceryArgs("P2", 1, -1, Text_2023_02_29)) }

RecordPool == GoodRecords \cup BadRecords

RECURSIVE SeqsUpTo(_, _)
SeqsUpTo(S, n) ==
    IF n = 0 THEN {<<>>}
    ELSE LET shorter == SeqsUpTo(S, n - 1)
         IN  shorter \cup {Append(s, x) : s \in shorter, x \in S}

ExternalFiles ==
    {NoFile, NotJson, Document([catalog |-> <<>>])}
    \cup {Document([products |-> recs]) : recs \in SeqsUpTo(RecordPool, MaxRecords)}

----------------------------------------------------------------------------
(* Actions: one per operation *)

\* a constructor call followed by add_product (lines 342-357); a Grocery
\* whose date does not parse raises before add_product is reached
AddProduct(a) ==
    LET c == from_dict(a)
        r == add_product(products, c.product)
    IN  /\ lastOp' = Op(IF c.result.kind = "ok" THEN "add_product" ELSE "construct",
                        a.product_id, 0)
        /\ products' = IF c.result.kind = "ok" THEN r.store ELSE products
        /\ result' = IF c.result.kind = "ok" THEN r.result ELSE c.result
        /\ returned' = <<>>
        /\ UNCHANGED <<file, today, padsYear>>

RemoveProduct(id) ==
    LET r == remove_product(products, id)
    IN  /\ lastOp' = Op("remove_product", id, 0)
        /\ products' = r.store
        /\ result' = r.result
        /\ returned' = <<>>
        /\ UNCHANGED <<file, today, padsYear>>

SellProduct(id, quantity) ==
    LET r == sell_product(products, id, quantity)
    IN  /\ lastOp' = Op("sell_product", id, quantity)
        /\ products' = r.store
        /\ result' = r.result
        /\ returned' = <<>>
        /\ UNCHANGED <<file, today, padsYear>>

RestockProduct(id, quantity) ==
    LET r == restock_product(products, id, quantity)
    IN  /\ \A i \in 1..Len(r.store) : r.store[i].quantity_in_stock <= MaxStock
        /\ lastOp' = Op("restock_product", id, quantity)
        /\ products' = r.store
        /\ result' = r.result
        /\ returned' = <<>>
        /\ UNCHANGED <<file, today, padsYear>>

\* product.price = new_price on a product of the store
SetPrice(id, new_price) ==
    /\ id \in Keys(products)
    /\ LET i == IndexOf(products, id)
           r == set_price(products[i], new_price)
       IN  /\ lastOp' = Op("set_price", id, new_price)
           /\ products' = [products EXCEPT ![i] = r.product]
           /\ result' = r.result
    /\ returned' = <<>>
    /\ UNCHANGED <<file, today, padsYear>>

RemoveExpired ==
    LET r == remove_expired_products(products, today)
    IN  /\ lastOp' = Op("remove_expired_products", "", 0)
        /\ products' = r.store
        /\ result' = Ok
        /\ returned' = r.returned
        /\ UNCHANGED <<file, today, padsYear>>

\* midnight passes
AdvanceDay ==
    /\ \E d \in Calendar : DateLT(today, d) /\ today' = d
    /\ lastOp' = Op("advance_day", "", 0)
    /\ result' = Ok
    /\ returned' = <<>>
    /\ UNCHANGED <<products, file, padsYear>>

SaveToFile ==
    /\ file' = save_to_file(products, padsYear)
    /\ lastOp' = Op("save_to_file", "", 0)
    /\ result' = Ok
    /\ returned' = <<>>
    /\ UNCHANGED <<products, today, padsYear>>

LoadFromFile ==
    LET r == load_from_file(products, file)
    IN  /\ lastOp' = Op("load_from_file", "", 0)
        /\ products' = r.store
        /\ result' = r.result
        /\ returned' = <<>>
        /\ UNCHANGED <<file, today, padsYear>>

----------------------------------------------------------------------------
(* Specifications *)

\* a new Inventory (line 213)
Empty ==
    /\ products = <<>>
    /\ lastOp = Op("init", "", 0)
    /\ result = Ok
    /\ returned = <<>>

\* the operations of Spec read neither the date nor the file
Init == Empty /\ file = NoFile /\ today = Date(2024, 3, 1) /\ padsYear = TRUE

\* the store and its products: add, remove, sell, restock, price
Next ==
    \/ \E a \in StoreArguments : AddProduct(a)
    \/ \E id \in FileIds : RemoveProduct(id)
    \/ \E id \in FileIds, q \in Amounts : SellProduct(id, q)
    \/ \E id \in FileIds, q \in Amounts : RestockProduct(id, q)
    \/ \E id \in FileIds, pr \in NewPrices : SetPrice(id, pr)

Spec == Init /\ [][Next]_vars

\* expiry pruning as the days pass
NextExpiry ==
    \/ \E a \in ExpiryArguments : AddProduct(a)
    \/ \E id \in ProductIds : RemoveProduct(id)
    \/ RemoveExpired
    \/ AdvanceDay

InitExpiry == Empty /\ file = NoFile /\ today \in Calendar /\ padsYear = TRUE

SpecExpiry == InitExpiry /\ [][NextExpiry]_vars

\* persistence: the file is there (or not) when the program starts
NextFile ==
    \/ \E a \in FileArguments : AddProduct(a)
    \/ SaveToFile
    \/ LoadFromFile

InitFile ==
    Empty /\ file \in ExternalFiles /\ today = Date(2024, 3, 1) /\ padsYear \in BOOLEAN

SpecFile == InitFile /\ [][NextFile]_vars

----------------------------------------------------------------------------
(* Properties of the store and its products, under Spec *)

Stock(store, id) == store[IndexOf(store, id)].quantity_in_stock

\* C1: every stored product has price > 0 and quantity_in_stock >= 0.
C1_PositivePriceNonNegativeStock ==
    \A i \in 1..Len(products) :
        products[i].price > 0 /\ products[i].quantity_in_stock >= 0

\* C5: selling more than the stock raises InsufficientStockError carrying the
\* available and the requested amounts, and changes nothing in the store.
C5_SellBeyondStock ==
    [][(/\ lastOp'.op = "sell_product"
        /\ lastOp'.id \in Keys(products)
        /\ lastOp'.amount > Stock(products, lastOp'.id))
       => (/\ result' = Res("InsufficientStockError",
                            Stock(products, lastOp'.id), lastOp'.amount)
           /\ products' = products)]_vars

\* the same for a stock that is not negative
SellBeyondNonNegativeStock ==
    [][(/\ lastOp'.op = "sell_product"
        /\ lastOp'.id \in Keys(products)
        /\ Stock(products, lastOp'.id) >= 0
        /\ lastOp'.amount > Stock(products, lastOp'.id))
       => (/\ result' = Res("InsufficientStockError",
                            Stock(products, lastOp'.id), lastOp'.amount)
           /\ products' = products)]_vars

\* C6: restock(amount) with amount > 0 adds exactly amount; sell(amount) with
\* 0 < amount <= stock takes exactly amount; neither takes a stock that is
\* not negative below zero.
C6_ExactAmounts ==
    [][(lastOp'.op \in {"sell_product", "restock_product"}
            /\ lastOp'.id \in Keys(products))
       => LET id     == lastOp'.id
              amount == lastOp'.amount
              before == Stock(products, id)
              after  == Stock(products', id)
          IN  /\ (lastOp'.op = "restock_product" /\ amount > 0)
                    => after = before + amount
              /\ (lastOp'.op = "sell_product" /\ amount > 0 /\ amount <= before)
                    => after = before - amount
              /\ before >= 0 => after >= 0]_vars

\* a sale that took the last units of a product
C6_Witness ==
    /\ lastOp.op = "sell_product"
    /\ lastOp.amount = 2
    /\ result.kind = "ok"
    /\ Stock(products, lastOp.id) = 0

UniqueIds ==
    \A i, j \in 1..Len(products) :
        products[i].product_id = products[j].product_id => i = j

\* C7: add_product with an id that is present raises DuplicateProductError and
\* leaves the store as it was; no id is ever stored twice.
C7_DuplicateRejected ==
    /\ []UniqueIds
    /\ [][(lastOp'.op = "add_product" /\ lastOp'.id \in Keys(products))
          => (result'.kind = "DuplicateProductError" /\ products' = products)]_vars

\* a rejected add of the id of the first of two stored products
C7_Witness ==
    /\ lastOp.op = "add_product"
    /\ result.kind = "DuplicateProductError"
    /\ Len(products) = 2
    /\ lastOp.id = products[1].product_id

\* C9: remove_product, sell_product and restock_product with an absent id
\* raise KeyError and leave the store as it was; with a present id, sell and
\* restock change nothing but that product's stock and end as the product's
\* own sell or restock ends.
C9_NotFoundAndFrame ==
    [][lastOp'.op \in {"remove_product", "sell_product", "restock_product"}
       => LET id     == lastOp'.id
              amount == lastOp'.amount
          IN  IF id \notin Keys(products)
              THEN result'.kind = "KeyError" /\ products' = products
              ELSE lastOp'.op # "remove_product"
                   => LET i == IndexOf(products, id)
                      IN  /\ Len(products') = Len(products)
                          /\ \A j \in 1..Len(products) :
                                j # i => products'[j] = products[j]
                          /\ products'[i] =
                                [products[i] EXCEPT !.quantity_in_stock =
                                    products'[i].quantity_in_stock]
                          /\ amount <= 0 => result'.kind = "ValueError"
                          /\ (amount > 0 /\ lastOp'.op = "restock_product")
                                => result'.kind = "ok"
                          /\ (amount > 0 /\ lastOp'.op = "sell_product")
                                => result'.kind =
                                     IF amount > products[i].quantity_in_stock
                                     THEN "InsufficientStockError" ELSE "ok"]_vars

\* a sale of an id that the store, which holds another product, does not hold
C9_Witness ==
    /\ lastOp.op = "sell_product"
    /\ lastOp.amount = 1
    /\ result.kind = "KeyError"
    /\ Len(products) = 1
    /\ products[1].quantity_in_stock = 1

----------------------------------------------------------------------------
(* Expiry pruning, under SpecExpiry *)

Expired(p, now) == p.type = "grocery" /\ DateLT(p.expiry_date, now)

Fresh(p, now) == ~Expired(p, now)

\* C8: remove_expired_products returns exactly the Grocery products whose
\* expiry_date is before today, in storage order, and removes exactly those:
\* the others stay as they were, in their order, and none left is expired.
C8_ExactlyTheExpired ==
    [][lastOp'.op = "remove_expired_products"
       => (/\ returned' = SelectSeq(products, LAMBDA p : Expired(p, today))
           /\ products' = SelectSeq(products, LAMBDA p : Fresh(p, today))
           /\ \A i \in 1..Len(products') : ~Expired(products'[i], today'))]_vars

\* one expired Grocery returned; a Grocery that is not expired and one
\* product of another kind remain
C8_Witness ==
    /\ lastOp.op = "remove_expired_products"
    /\ Len(returned) = 1
    /\ Len(products) = 2
    /\ \E i \in 1..2 : products[i].type = "grocery"
    /\ \E i \in 1..2 : products[i].type = "electronics"

----------------------------------------------------------------------------
(* Persistence, under SpecFile *)

Loaded == lastOp.op = "load_from_file"

HasRecords(f) == f.kind = "json" /\ "products" \in DOMAIN f.text

MissingField(r) ==
    \/ "type" \notin DOMAIN r
    \/ r.type \in product_classes /\ ~(RequiredFields(r.type) \subseteq DOMAIN r)

UnknownType(r) == "type" \in DOMAIN r /\ r.type \notin product_classes

DuplicateId(records, k) ==
    \E j \in 1..(k - 1) : records[j].product_id = records[k].product_id

BadDate(r) ==
    /\ ~MissingField(r)
    /\ r.type = "grocery"
    /\ ~strptime(r.expiry_date).ok

BadRecord(records, k) ==
    MissingField(records[k]) \/ UnknownType(records[k]) \/ DuplicateId(records, k)

Unusable(records, k) == BadRecord(records, k) \/ BadDate(records[k])

\* the first record a load cannot use, 0 when it can use them all
FirstUnusable(records) ==
    IF \E k \in 1..Len(records) : Unusable(records, k)
    THEN CHOOSE k \in 1..Len(records) :
            Unusable(records, k) /\ \A j \in 1..(k - 1) : ~Unusable(records, j)
    ELSE 0

C3_SaveLoadRoundTrip ==
    LET r == load_from_file(<<>>, save_to_file(products, padsYear))
    IN  r.result.kind = "ok" /\ r.store = products

\* the round trip where the year is printed with the four digits strptime needs
RoundTripWithFourDigitYear ==
    (padsYear \/ \A i \in 1..Len(products) :
                    products[i].type = "grocery" => products[i].expiry_date.year >= 1000)
    => C3_SaveLoadRoundTrip

\* C4: a load whose first unusable record lacks a field, has an unknown type,
\* or is a grocery whose expiry_date is no YYYY-MM-DD date raises
\* InvalidProductDataError.
C4_DecodeErrorsAreInvalidProductData ==
    (Loaded /\ HasRecords(file) /\ FirstUnusable(file.text.products) # 0)
    => LET r == file.text.products[FirstUnusable(file.text.products)]
       IN  (MissingField(r) \/ UnknownType(r) \/ BadDate(r))
              => result.kind = "InvalidProductDataError"

\* C10: a load that cannot open the file or parse it as JSON leaves the store
\* as it was; any other load leaves a store that holds products of the
\* document only, whatever it held before and however the scan ends.
C10_ClearedOnlyAfterParse ==
    [][lastOp'.op = "load_from_file"
       => IF file.kind = "missing"
          THEN result'.kind = "FileNotFoundError" /\ products' = products
          ELSE IF file.kind = "garbage"
          THEN result'.kind = "JSONDecodeError" /\ products' = products
          ELSE IF ~HasRecords(file)
          THEN products' = <<>>
          ELSE /\ products' = load_from_file(<<>>, file).store
               /\ Len(products') <= Len(file.text.products)
               /\ \A i \in 1..Len(products') :
                     /\ products'[i].product_id = file.text.products[i].product_id
                     /\ products'[i].type = file.text.products[i].type]_vars

\* a load of a file that is not JSON, with two products in the store
C10_Witness ==
    /\ Loaded
    /\ result.kind = "JSONDecodeError"
    /\ Len(products) = 2

====
